---------------------------- MODULE Spec2Model ----------------------------
(***************************************************************************)
(* Quotation / invoice logic of the greensight-manager dashboard.          *)
(*                                                                         *)
(* The store is the Firebase realtime database (collections products,      *)
(* quotations, invoices, customers, users).  The browser side is made of   *)
(* React components: QuotationForm (creates quotations), QuotationList     *)
(* (lists, searches and deletes them, opens the invoice dialog),           *)
(* InvoiceGenerator (writes an invoice and flips the quotation's status),  *)
(* ProductList and CustomerList (held lists, edit, stock and delete        *)
(* dialogs), InvoiceList (search), StatsOverview (dashboard totals) and    *)
(* AuthProvider (the session's user and role).                             *)
(*                                                                         *)
(* Amounts and prices are modelled as integers (currency minor units).     *)
(* An optional JavaScript value (T | undefined) is a set: {} or {v}.       *)
(***************************************************************************)
EXTENDS Integers, Sequences, FiniteSets, TLC

(***************************************************************************)
(* Bounds of the model.                                                    *)
(***************************************************************************)
MaxLines == 2          \* lines the quotation form may hold
MaxStock == 2          \* largest on-hand quantity of a product
MaxQuotations == 1     \* push keys the quotations collection hands out
MaxInvoices == 2       \* push keys the invoices collection hands out
MaxDelta == 2          \* largest change the Update Inventory dialog is given

ProductIds == {"pA", "pB"}
Prices == {1, 2}
Clients == {"c1", "c2"}

VARIABLES
    products,            \* store: products collection, id -> record
    quotations,          \* store: quotations collection, key -> record
    nextQuotationKey,    \* store: next push key of the quotations collection
    invoices,            \* store: invoices collection, in push order
    formProducts,        \* QuotationForm: products state (fetched once)
    formFetched,         \* QuotationForm: fetchProducts has completed
    quotationItems,      \* QuotationForm: quotationItems state
    total,               \* QuotationForm: total state
    formToast,           \* QuotationForm: last toast shown
    selectedQuotation,   \* QuotationList: selectedQuotation state, per client
    showInvoice,         \* QuotationList: showInvoice state, per client
    invoiceType,         \* InvoiceGenerator: invoiceType state, per client
    isSubmitting,        \* InvoiceGenerator: isSubmitting state, per client
    pc,                  \* InvoiceGenerator.onSubmit: position of the async run
    run,                 \* InvoiceGenerator.onSubmit: locals of the run
    closeTimers,         \* InvoiceGenerator.onSubmit: pending setTimeout callbacks
    toast,               \* QuotationList / InvoiceGenerator / ProductList: last toast shown
    selectedProduct,     \* ProductList: selectedProduct state, per client
    isQuantityDialogOpen,\* ProductList: isQuantityDialogOpen state, per client
    quantityChange,      \* ProductList: quantityChange state, per client
    users,               \* store: users collection, uid -> record
    customers,           \* store: customers collection, id -> record
    currentUser,         \* AuthProvider: currentUser state
    userData,            \* AuthProvider: userData state
    isLoading,           \* AuthProvider: isLoading state
    authRuns,            \* AuthProvider: onAuthStateChanged callbacks awaiting the store
    authToast,           \* AuthProvider: last toast shown
    selectedCustomer,    \* CustomerList: selectedCustomer state of the session
    productToDelete,     \* ProductList: selectedProduct state of the session's delete alert
    isDeleteAlertOpen,   \* CustomerList / ProductList: isDeleteAlertOpen state, per list
    listToast,           \* CustomerList / ProductList: last toast shown in the session
    editedCustomer,      \* CustomerList of another client: selectedCustomer of its edit dialog
    listCustomers,       \* CustomerList: customers state (the held list)
    listProducts,        \* ProductList: products state (the held list)
    stats,               \* StatsOverview: stats state
    invoiceRows,         \* InvoiceList: invoices state
    filteredInvoices,    \* InvoiceList: filteredInvoices state
    invoiceSearchTerm,   \* InvoiceList: searchTerm state
    quotationRows,       \* QuotationList: quotations state
    filteredQuotations,  \* QuotationList: filteredQuotations state
    searchTerm,          \* QuotationList: searchTerm state
    quotationListCustomers, \* QuotationList: customers state
    quotationListProducts,  \* QuotationList: products state
    invoiceListCustomers    \* InvoiceList: customers state

storeVars == <<products, quotations, nextQuotationKey, invoices>>
formVars == <<formProducts, formFetched, quotationItems, total, formToast>>
clientVars == <<selectedQuotation, showInvoice, invoiceType, isSubmitting,
                pc, run, closeTimers, toast>>
inventoryVars == <<selectedProduct, isQuantityDialogOpen, quantityChange>>
authVars == <<users, currentUser, userData, isLoading, authRuns, authToast>>
deleteVars == <<customers, selectedCustomer, productToDelete, isDeleteAlertOpen,
                listToast, editedCustomer>>
listVars == <<listCustomers, listProducts>>
searchVars == <<invoiceRows, filteredInvoices, invoiceSearchTerm,
                quotationRows, filteredQuotations, searchTerm,
                quotationListCustomers, quotationListProducts, invoiceListCustomers>>
sessionVars == <<authVars, deleteVars, listVars, stats, searchVars>>
vars == <<storeVars, formVars, clientVars, inventoryVars, sessionVars>>

(***************************************************************************)
(* Small helpers.                                                          *)
(***************************************************************************)
RECURSIVE SumSeq(_)
SumSeq(s) == IF s = <<>> THEN 0 ELSE Head(s) + SumSeq(Tail(s))

The(S) == CHOOSE x \in S : TRUE

RemoveAt(s, i) == [j \in 1..(Len(s) - 1) |-> IF j < i THEN s[j] ELSE s[j + 1]]

NoToast == [title |-> "", description |-> "", available |-> {}, product |-> {}]
Toast(t, d) == [title |-> t, description |-> d, available |-> {}, product |-> {}]

(***************************************************************************)
(* Product records of the store.                                           *)
(***************************************************************************)
ProductNameOf(p) == IF p = "pA" THEN "Panel" ELSE "Inverter"

\* createdAt: serverTimestamp() of the write that created the record.
CreatedAtOf(p) == IF p = "pA" THEN 1 ELSE IF p = "pB" THEN 2 ELSE 3

Product(p, price, quantity) ==
    [id |-> p, name |-> ProductNameOf(p), price |-> price, quantity |-> quantity,
     createdAt |-> CreatedAtOf(p)]

(***************************************************************************)
(* QuotationForm.                                                          *)
(***************************************************************************)
\* parseInt(e.target.value) || 1 : NaN ({}) and 0 both give 1.
ParsedQuantity(parsed) == IF parsed = {} \/ parsed = {0} THEN 1 ELSE The(parsed)

\* products.find(p => p.id === productId)
FindProduct(prods, productId) ==
    IF productId \in DOMAIN prods THEN {prods[productId]} ELSE {}

\* A total that adds the prices up without the quantities.
TotalOfPrices(items) ==
    SumSeq([i \in 1..Len(items) |->
              IF items[i].product = {} THEN 0 ELSE The(items[i].product).price])

\* The effect that recomputes total whenever quotationItems changes.
TotalOf(items) ==
    SumSeq([i \in 1..Len(items) |->
              IF items[i].product = {} THEN 0
              ELSE The(items[i].product).price * items[i].quantity])

\* item.product?.price || 0
UnitPriceOf(item) == IF item.product = {} THEN 0 ELSE The(item.product).price

QuotationLine(item) ==
    [productId |-> item.productId,
     quantity |-> item.quantity,
     unitPrice |-> UnitPriceOf(item),
     subtotal |-> UnitPriceOf(item) * item.quantity]

\* A quotation object created as already approved.
QuotationDataApproved(items, tot) ==
    [customerId |-> "cust",
     items |-> [i \in 1..Len(items) |-> QuotationLine(items[i])],
     totalAmount |-> tot,
     status |-> "approved"]

\* The quotation object onSubmit builds.
QuotationData(items, tot) ==
    [customerId |-> "cust",
     items |-> [i \in 1..Len(items) |-> QuotationLine(items[i])],
     totalAmount |-> tot,
     status |-> "pending"]

\* Per-line checks without the comparison against the quantity on hand.
LineErrorNoStock(item, prods) ==
    IF item.productId = ""
    THEN Toast("Error", "Please select a product for each quotation item")
    ELSE IF FindProduct(prods, item.productId) = {}
    THEN Toast("Error", "One or more products not found")
    ELSE NoToast

\* The per-line checks of onSubmit: the toast of one line, NoToast when it passes.
LineError(item, prods) ==
    IF item.productId = ""
    THEN Toast("Error", "Please select a product for each quotation item")
    ELSE IF FindProduct(prods, item.productId) = {}
    THEN Toast("Error", "One or more products not found")
    ELSE LET product == The(FindProduct(prods, item.productId)) IN
         IF item.quantity > product.quantity
         THEN [title |-> "Error",
               description |-> "Only N units of NAME are available",
               available |-> {product.quantity},
               product |-> {product.name}]
         ELSE NoToast

\* The loop over quotationItems: the toast of the first line that fails.
RECURSIVE ItemsError(_, _)
ItemsError(items, prods) ==
    IF items = <<>> THEN NoToast
    ELSE IF LineError(Head(items), prods) # NoToast
    THEN LineError(Head(items), prods)
    ELSE ItemsError(Tail(items), prods)

\* All of onSubmit's validation: the toast it returns with, NoToast when it passes.
ValidationError(items, prods) ==
    IF Len(items) = 0
    THEN Toast("Error", "Please add at least one product to the quotation")
    ELSE ItemsError(items, prods)

FetchProducts ==
    /\ ~formFetched
    /\ formFetched' = TRUE
    /\ \/ /\ formProducts' = products
          /\ UNCHANGED formToast
       \/ /\ formToast' = Toast("Error", "Failed to load products. Please try again.")
          /\ UNCHANGED formProducts
    /\ UNCHANGED <<quotationItems, total, storeVars, clientVars, sessionVars, inventoryVars>>

addQuotationItem ==
    /\ Len(quotationItems) < MaxLines
    /\ quotationItems' = Append(quotationItems,
                                [productId |-> "", quantity |-> 1, product |-> {}])
    /\ total' = TotalOf(quotationItems')
    /\ UNCHANGED <<formProducts, formFetched, formToast, storeVars, clientVars, sessionVars, inventoryVars>>

removeQuotationItem ==
    \E index \in 1..Len(quotationItems) :
        /\ quotationItems' = RemoveAt(quotationItems, index)
        /\ total' = TotalOf(quotationItems')
        /\ UNCHANGED <<formProducts, formFetched, formToast, storeVars, clientVars, sessionVars, inventoryVars>>

\* updateQuotationItem(index, 'productId', value): value is one of the options
\* the Select renders, the ids of the fetched products.
updateProductId ==
    \E index \in 1..Len(quotationItems), value \in DOMAIN formProducts :
        /\ quotationItems' =
              [quotationItems EXCEPT ![index] =
                  [productId |-> value,
                   quantity |-> @.quantity,
                   product |-> FindProduct(formProducts, value)]]
        /\ total' = TotalOf(quotationItems')
        /\ UNCHANGED <<formProducts, formFetched, formToast, storeVars, clientVars, sessionVars, inventoryVars>>

\* What parseInt makes of the text typed into the quantity input: NaN, or a number.
TypedQuantities == {{}, {-1}, {0}, {2}}

\* updateQuotationItem(index, 'quantity', parseInt(e.target.value) || 1)
updateQuantity ==
    \E index \in 1..Len(quotationItems), parsed \in TypedQuantities :
        /\ quotationItems' =
              [quotationItems EXCEPT ![index].quantity = ParsedQuantity(parsed)]
        /\ total' = TotalOf(quotationItems')
        /\ UNCHANGED <<formProducts, formFetched, formToast, storeVars, clientVars, sessionVars, inventoryVars>>

\* QuotationForm.onSubmit run on the form state (items, tot, prods).
onSubmitQuotation(items, tot, prods) ==
    IF ValidationError(items, prods) # NoToast
    THEN /\ formToast' = ValidationError(items, prods)
         /\ UNCHANGED <<quotationItems, total, quotations, nextQuotationKey>>
    ELSE \/ /\ nextQuotationKey <= MaxQuotations
            /\ quotations' = quotations @@ (nextQuotationKey :> QuotationData(items, tot))
            /\ nextQuotationKey' = nextQuotationKey + 1
            /\ formToast' = Toast("Success", "Quotation created successfully")
            /\ quotationItems' = <<>>
            /\ total' = TotalOf(quotationItems')
         \/ /\ formToast' = Toast("Error", "Failed to create quotation. Please try again.")
            /\ UNCHANGED <<quotationItems, total, quotations, nextQuotationKey>>

\* The quantity input of a line: min="1" max={product?.quantity || 1}, with
\* product the one found in the form's list under the line's productId.
MaxQuantityOf(item, prods) ==
    IF FindProduct(prods, item.productId) = {} THEN 1
    ELSE IF The(FindProduct(prods, item.productId)).quantity = 0 THEN 1
    ELSE The(FindProduct(prods, item.productId)).quantity

\* Quantity inputs whose min is not looked at.
InputsValidNoMin(items, prods) ==
    \A i \in 1..Len(items) : items[i].quantity <= MaxQuantityOf(items[i], prods)

\* The browser's constraint validation of the form's inputs: a submit goes
\* through to handleSubmit only when every quantity is within [min, max].
InputsValid(items, prods) ==
    \A i \in 1..Len(items) :
        /\ items[i].quantity >= 1
        /\ items[i].quantity <= MaxQuantityOf(items[i], prods)

\* A submit button that is never disabled.
SubmitButtonAlwaysEnabled(items) == TRUE

\* The submit button: disabled={quotationItems.length === 0}.
SubmitButtonEnabled(items) == Len(items) # 0

SubmitQuotation ==
    /\ SubmitButtonEnabled(quotationItems)
    /\ InputsValid(quotationItems, formProducts)
    /\ onSubmitQuotation(quotationItems, total, formProducts)
    /\ UNCHANGED <<formProducts, formFetched, products, invoices, clientVars, sessionVars, inventoryVars>>

(***************************************************************************)
(* The filled forms a quotation is created from when the form's editing    *)
(* is not followed step by step: the line lists a user can build on the    *)
(* products as fetched.                                                    *)
(***************************************************************************)
FilledLine(prods, p, q) ==
    [productId |-> p, quantity |-> q, product |-> FindProduct(prods, p)]

FilledForms(prods) ==
    {<<FilledLine(prods, "pA", 2), FilledLine(prods, "pB", 1)>>}

\* A creation that takes the quoted quantity of pA off the stock.
CreateQuotationDecrementing ==
    /\ \E items \in FilledForms(products) :
          /\ SubmitButtonEnabled(items)
          /\ InputsValid(items, products)
          /\ onSubmitQuotation(items, TotalOf(items), products)
          /\ products' = [products EXCEPT !["pA"].quantity = @ - items[1].quantity]
    /\ UNCHANGED <<formProducts, formFetched, invoices, clientVars, sessionVars, inventoryVars>>

\* QuotationForm.onSubmit on a form filled from the products as they are now.
CreateQuotation ==
    /\ \E items \in FilledForms(products) :
          /\ SubmitButtonEnabled(items)
          /\ InputsValid(items, products)
          /\ onSubmitQuotation(items, TotalOf(items), products)
    /\ UNCHANGED <<formProducts, formFetched, products, invoices, clientVars, sessionVars, inventoryVars>>

(***************************************************************************)
(* ProductList: the store write of handleEditSubmit for an edit form       *)
(* holding (price, quantity).                                              *)
(***************************************************************************)
handleEditSubmit(p, price, quantity) ==
    /\ products' = [products EXCEPT ![p].price = price, ![p].quantity = quantity]
    /\ UNCHANGED <<quotations, nextQuotationKey, invoices, formVars, sessionVars, inventoryVars, clientVars>>

\* An edit of a product's price.
EditedProducts == {"pA"}

EditPrice ==
    \E p \in EditedProducts, price \in Prices :
        handleEditSubmit(p, price, products[p].quantity)

(***************************************************************************)
(* The entity store's calls (Firebase realtime database).                  *)
(***************************************************************************)
\* update(ref, fields): sets the given children of the path; a path that does
\* not exist is created holding just these children.
StoreUpdate(collection, key, fields) ==
    IF key \in DOMAIN collection
    THEN [collection EXCEPT ![key] =
             [f \in DOMAIN @ \cup DOMAIN fields |->
                 IF f \in DOMAIN fields THEN fields[f] ELSE @[f]]]
    ELSE collection @@ (key :> fields)

\* remove(ref)
StoreRemove(collection, key) ==
    [k \in DOMAIN collection \ {key} |-> collection[k]]

\* A row of a list, as the subscription callbacks build it:
\* { id: childSnapshot.key, ...childSnapshot.val() }
RowOf(collection, key) ==
    [f \in DOMAIN collection[key] \cup {"id"} |->
        IF f \in DOMAIN collection[key] THEN collection[key][f] ELSE key]

(***************************************************************************)
(* ProductList: the edit dialog's quantity field.                          *)
(***************************************************************************)
\* What parseFloat makes of the number typed into the edit dialog's quantity
\* input.
EditQuantities == -1..MaxStock

\* An edit form whose inputs carry no min.
EditInputsValidNoMin(price, quantity) == TRUE

\* The browser's constraint validation of the edit form: quantity and price
\* are type="number" min="0" required, and Save Changes is a submit button.
EditInputsValid(price, quantity) == quantity >= 0 /\ price >= 0

\* An edit of a product's quantity on hand.
EditQuantity ==
    \E p \in EditedProducts, quantity \in EditQuantities :
        /\ EditInputsValid(products[p].price, quantity)
        /\ handleEditSubmit(p, products[p].price, quantity)

(***************************************************************************)
(* AddProductForm.                                                         *)
(***************************************************************************)
\* The push keys the products collection hands out.
NewProductIds == {"pC"}

\* What the schema's parseInt makes of the text of the quantity input: NaN,
\* or a number.
AddQuantities == {{}, {-1}, {0}, {1}}

\* The browser's constraint validation of the add form: the quantity input is
\* type="number" min="0" and is not required, so an empty text goes through.
AddInputsValid(parsed) == IF parsed = {} THEN TRUE ELSE The(parsed) >= 0

\* AddProductForm.onSubmit for a form whose quantity parses to parsed: push
\* throws on a NaN value, and may fail on its own.
onSubmitProduct(c, p, parsed) ==
    IF parsed = {}
    THEN /\ toast' = [toast EXCEPT ![c] =
                         Toast("Error", "Failed to add product. Please try again.")]
         /\ UNCHANGED products
    ELSE \/ /\ products' = products @@ (p :> Product(p, 1, The(parsed)))
            /\ toast' = [toast EXCEPT ![c] =
                            Toast("Success", "Product added successfully")]
         \/ /\ toast' = [toast EXCEPT ![c] =
                            Toast("Error", "Failed to add product. Please try again.")]
            /\ UNCHANGED products

AddProduct(c) ==
    \E p \in NewProductIds \ DOMAIN products, parsed \in AddQuantities :
        /\ AddInputsValid(parsed)
        /\ onSubmitProduct(c, p, parsed)
        /\ UNCHANGED <<quotations, nextQuotationKey, invoices, formVars, sessionVars,
                       selectedQuotation, showInvoice, invoiceType, isSubmitting,
                       pc, run, closeTimers, inventoryVars>>

(***************************************************************************)
(* ProductList: the Update Inventory dialog.                               *)
(***************************************************************************)
\* The products whose stock button is followed.
AdjustedProducts == {"pA"}

\* handleQuantityChange(product): the stock button of a row; the dialog keeps
\* the row as selectedProduct.
handleQuantityChange(c) ==
    \E p \in AdjustedProducts \cap DOMAIN products :
        /\ ~isQuantityDialogOpen[c]
        /\ selectedProduct' = [selectedProduct EXCEPT ![c] = {RowOf(products, p)}]
        /\ quantityChange' = [quantityChange EXCEPT ![c] = 0]
        /\ isQuantityDialogOpen' = [isQuantityDialogOpen EXCEPT ![c] = TRUE]
        /\ UNCHANGED <<storeVars, formVars, sessionVars, clientVars>>

\* selectedProduct?.quantity || 0
ObservedQuantity(selected) == IF selected = {} THEN 0 ELSE The(selected).quantity

\* The minus button: disabled={selectedProduct?.quantity === 0 && quantityChange <= 0}.
MinusEnabled(selected, change) ==
    ~(selected # {} /\ The(selected).quantity = 0 /\ change <= 0)

\* setQuantityChange(prev => prev - 1)
DecrementChange(c) ==
    /\ isQuantityDialogOpen[c]
    /\ MinusEnabled(selectedProduct[c], quantityChange[c])
    /\ quantityChange[c] > -MaxDelta
    /\ quantityChange' = [quantityChange EXCEPT ![c] = @ - 1]
    /\ UNCHANGED <<selectedProduct, isQuantityDialogOpen, storeVars, formVars, sessionVars,
                   clientVars>>

\* setQuantityChange(prev => prev + 1)
IncrementChange(c) ==
    /\ isQuantityDialogOpen[c]
    /\ quantityChange[c] < MaxDelta
    /\ quantityChange' = [quantityChange EXCEPT ![c] = @ + 1]
    /\ UNCHANGED <<selectedProduct, isQuantityDialogOpen, storeVars, formVars, sessionVars,
                   clientVars>>

\* What parseInt(e.target.value || '0', 10) makes of the dialog's input.
TypedChanges == {-MaxDelta, 0, MaxDelta}

\* setQuantityChange(parseInt(e.target.value || '0', 10))
TypeChange(c) ==
    \E typed \in TypedChanges :
        /\ isQuantityDialogOpen[c]
        /\ quantityChange' = [quantityChange EXCEPT ![c] = typed]
        /\ UNCHANGED <<selectedProduct, isQuantityDialogOpen, storeVars, formVars, sessionVars,
                       clientVars>>

\* The dialog's Cancel button: setIsQuantityDialogOpen(false).
CancelQuantityChange(c) ==
    /\ isQuantityDialogOpen[c]
    /\ isQuantityDialogOpen' = [isQuantityDialogOpen EXCEPT ![c] = FALSE]
    /\ UNCHANGED <<selectedProduct, quantityChange, storeVars, formVars, sessionVars, clientVars>>

\* An Update Inventory button that a negative result does not disable.
ConfirmEnabledNegative(selected, change) == change # 0

\* The Update Inventory button:
\* disabled={quantityChange === 0 || ((selectedProduct?.quantity || 0) + quantityChange) < 0}.
ConfirmEnabled(selected, change) ==
    ~(change = 0 \/ ObservedQuantity(selected) + change < 0)

Abs(n) == IF n < 0 THEN 0 - n ELSE n

\* The success toast: `${amount} ${unit}(s) ${action} inventory.`, the amount
\* kept in the toast's number.
QuantityToast(change) ==
    [title |-> "Success",
     description |-> IF change > 0 THEN "added to inventory." ELSE "removed from inventory.",
     available |-> {Abs(change)},
     product |-> {}]

NegativeToast == Toast("Error", "Quantity cannot be negative.")

\* A new quantity computed from the store's record instead of the dialog's.
NewQuantityFromStore(selected, change) == products[The(selected).id].quantity + change

\* newQuantity = selectedProduct.quantity + quantityChange
NewQuantity(selected, change) == The(selected).quantity + change

\* An update that writes a price of 0 along with the quantity.
QuantityUpdateRepriced(selected, change) ==
    [quantity |-> NewQuantity(selected, change), price |-> 0]

\* The fields of the update: { quantity: newQuantity, updatedAt }; the
\* timestamp is not kept.
QuantityUpdate(selected, change) == [quantity |-> NewQuantity(selected, change)]

\* confirmQuantityChange past its first line, with the update awaited: either
\* the negative-result return, or the write and what follows it, or the catch.
confirmQuantityChange(c) ==
    IF NewQuantity(selectedProduct[c], quantityChange[c]) < 0
    THEN /\ toast' = [toast EXCEPT ![c] = NegativeToast]
         /\ UNCHANGED <<products, inventoryVars>>
    ELSE \/ /\ products' = StoreUpdate(products, The(selectedProduct[c]).id,
                              QuantityUpdate(selectedProduct[c], quantityChange[c]))
            /\ toast' = [toast EXCEPT ![c] = QuantityToast(quantityChange[c])]
            /\ isQuantityDialogOpen' = [isQuantityDialogOpen EXCEPT ![c] = FALSE]
            /\ selectedProduct' = [selectedProduct EXCEPT ![c] = {}]
            /\ quantityChange' = [quantityChange EXCEPT ![c] = 0]
         \/ /\ toast' = [toast EXCEPT ![c] =
                  Toast("Error", "Failed to update quantity. Please try again.")]
            /\ UNCHANGED <<products, inventoryVars>>

\* A click on Update Inventory.  Quantities above MaxStock are left out.
ConfirmQuantityChange(c) ==
    /\ isQuantityDialogOpen[c]
    /\ selectedProduct[c] # {}
    /\ ConfirmEnabled(selectedProduct[c], quantityChange[c])
    /\ NewQuantity(selectedProduct[c], quantityChange[c]) <= MaxStock
    /\ confirmQuantityChange(c)
    /\ UNCHANGED <<quotations, nextQuotationKey, invoices, formVars, sessionVars,
                   selectedQuotation, showInvoice, invoiceType, isSubmitting,
                   pc, run, closeTimers>>

(***************************************************************************)
(* QuotationList.                                                          *)
(***************************************************************************)
\* products[item.productId]?.name || 'Unknown Product'
ProductNameIn(prods, productId) ==
    IF productId \in DOMAIN prods THEN prods[productId].name ELSE "Unknown Product"

\* The enrichment effect: each item gets a productName, the quotation a customerName.
Enriched(quotation, prods) ==
    [f \in DOMAIN quotation \cup {"customerName"} |->
        IF f = "customerName" THEN "Customer"
        ELSE IF f = "items"
        THEN [i \in 1..Len(quotation.items) |->
                 [g \in DOMAIN quotation.items[i] \cup {"productName"} |->
                     IF g = "productName"
                     THEN ProductNameIn(prods, quotation.items[i].productId)
                     ELSE quotation.items[i][g]]]
        ELSE quotation[f]]

\* A row of the list: { id: quotationKey, ...quotationData }.
Row(key) ==
    [f \in DOMAIN quotations[key] \cup {"id"} |->
        IF f = "id" THEN key ELSE quotations[key][f]]

\* The "Generate Invoice" button of a row's details dialog.  The row is the
\* snapshot's, with or without the enrichment effect having run on it.  The
\* details dialog renders quotation.items, so a record without items never
\* gets as far as showing the button.
OpenInvoiceDialog(c, enrichments) ==
    \E key \in DOMAIN quotations, enriched \in enrichments :
        /\ ~showInvoice[c]
        /\ "items" \in DOMAIN quotations[key]
        /\ selectedQuotation' =
              [selectedQuotation EXCEPT ![c] =
                  {IF enriched THEN Enriched(Row(key), products) ELSE Row(key)}]
        /\ showInvoice' = [showInvoice EXCEPT ![c] = TRUE]
        /\ invoiceType' = [invoiceType EXCEPT ![c] = "customer"]
        /\ isSubmitting' = [isSubmitting EXCEPT ![c] = FALSE]
        /\ UNCHANGED <<pc, run, closeTimers, toast, storeVars, formVars, sessionVars, inventoryVars>>

\* onOpenChange(false) of the invoice dialog: the user dismisses it.
DismissInvoiceDialog(c) ==
    /\ showInvoice[c]
    /\ showInvoice' = [showInvoice EXCEPT ![c] = FALSE]
    /\ UNCHANGED <<selectedQuotation, invoiceType, isSubmitting, pc, run,
                   closeTimers, toast, storeVars, formVars, sessionVars, inventoryVars>>

\* A deletion that takes the quotation's invoices along.
handleDeleteQuotationCascading(c) ==
    \E quotationId \in DOMAIN quotations :
        /\ ~showInvoice[c]
        /\ quotations' = StoreRemove(quotations, quotationId)
        /\ invoices' = SelectSeq(invoices, LAMBDA inv : inv.quotationId # quotationId)
        /\ toast' = [toast EXCEPT ![c] =
                        Toast("Success", "Quotation deleted successfully")]
        /\ UNCHANGED <<products, nextQuotationKey, formVars, sessionVars, inventoryVars,
                       selectedQuotation, showInvoice, invoiceType, isSubmitting,
                       pc, run, closeTimers>>

\* The Delete button of a row's confirmation dialog: handleDeleteQuotation(quotation.id).
handleDeleteQuotation(c) ==
    \E quotationId \in DOMAIN quotations :
        /\ ~showInvoice[c]
        /\ \/ /\ quotations' = StoreRemove(quotations, quotationId)
              /\ toast' = [toast EXCEPT ![c] =
                              Toast("Success", "Quotation deleted successfully")]
           \/ /\ toast' = [toast EXCEPT ![c] =
                              Toast("Error", "Failed to delete quotation. Please try again.")]
              /\ UNCHANGED quotations
        /\ UNCHANGED <<products, nextQuotationKey, invoices, formVars, sessionVars, inventoryVars,
                       selectedQuotation, showInvoice, invoiceType, isSubmitting,
                       pc, run, closeTimers>>

(***************************************************************************)
(* Review (approve / reject) of a pending quotation: a direct overwrite of *)
(* the stored status.                                                      *)
(***************************************************************************)
ReviewQuotation ==
    \E key \in DOMAIN quotations, decision \in {"approved", "rejected"} :
        /\ quotations[key].status = "pending"
        /\ quotations' = StoreUpdate(quotations, key, [status |-> decision])
        /\ UNCHANGED <<products, nextQuotationKey, invoices, formVars, sessionVars, inventoryVars, clientVars>>

(***************************************************************************)
(* InvoiceGenerator.                                                       *)
(***************************************************************************)
InvoiceNumbers == {"INV-1"}

\* The additionalItems a user can have filled in when pressing submit.
AdditionalItemLists ==
    {<<>>,
     <<[description |-> "Installation", amount |-> 1],
       [description |-> "Freight", amount |-> 2]>>,
     <<[description |-> "", amount |-> 0]>>,
     <<[description |-> "Discount", amount |-> -1]>>}

InvoiceForms ==
    [invoiceNumber : InvoiceNumbers, additionalItems : AdditionalItemLists]

\* A schema that turns down an invoice number some stored invoice carries.
invoiceSchemaUnique(data) ==
    /\ data.invoiceNumber # ""
    /\ \A i \in 1..Len(invoices) : invoices[i].invoiceNumber # data.invoiceNumber
    /\ \A i \in 1..Len(data.additionalItems) :
          /\ data.additionalItems[i].description # ""
          /\ data.additionalItems[i].amount >= 0

\* invoiceSchema, as far as the modelled fields go.
invoiceSchema(data) ==
    /\ data.invoiceNumber # ""
    /\ \A i \in 1..Len(data.additionalItems) :
          /\ data.additionalItems[i].description # ""
          /\ data.additionalItems[i].amount >= 0

\* The toasts of onSubmit: the one after both writes, and the catch block's.
SuccessToast == Toast("Success", "Invoice generated successfully")
FailedToast == Toast("Error", "Failed to generate invoice. Please try again.")

\* A total that leaves the additional items out.
InvoiceTotalQuotationOnly(quotation, additionalItems) == quotation.totalAmount

\* let totalAmount = quotation.totalAmount; forEach(item => totalAmount += item.amount)
InvoiceTotal(quotation, additionalItems) ==
    quotation.totalAmount
        + SumSeq([i \in 1..Len(additionalItems) |-> additionalItems[i].amount])

\* Items re-derived from the products as they are when the invoice is built.
InvoiceItemsRepriced(quotation) ==
    [i \in 1..Len(quotation.items) |->
        [quotation.items[i] EXCEPT
            !.unitPrice = products[quotation.items[i].productId].price,
            !.subtotal = products[quotation.items[i].productId].price
                            * quotation.items[i].quantity]]

\* items: quotation.items
InvoiceItems(quotation) == quotation.items

\* An invoice object that ignores the invoiceType state.
InvoiceDataCustomerOnly(data, quotation, type) ==
    [invoiceNumber |-> data.invoiceNumber,
     additionalItems |-> data.additionalItems,
     quotationId |-> quotation.id,
     customerId |-> quotation.customerId,
     items |-> InvoiceItems(quotation),
     totalAmount |-> InvoiceTotal(quotation, data.additionalItems),
     type |-> "customer",
     status |-> "active"]

\* The invoice object onSubmit builds.  customerId is customer.id, the customer
\* the list found under quotation.customerId.
InvoiceData(data, quotation, type) ==
    [invoiceNumber |-> data.invoiceNumber,
     additionalItems |-> data.additionalItems,
     quotationId |-> quotation.id,
     customerId |-> quotation.customerId,
     items |-> InvoiceItems(quotation),
     totalAmount |-> InvoiceTotal(quotation, data.additionalItems),
     type |-> type,
     status |-> "active"]

\* The submit button: disabled={isSubmitting}.
SubmitEnabled(c) == showInvoice[c] /\ ~isSubmitting[c]

setInvoiceType(c) ==
    \E type \in {"customer", "company"} :
        /\ showInvoice[c]
        /\ invoiceType' = [invoiceType EXCEPT ![c] = type]
        /\ UNCHANGED <<selectedQuotation, showInvoice, isSubmitting, pc, run,
                       closeTimers, toast, storeVars, formVars, sessionVars, inventoryVars>>

\* onSubmit up to its first await: form.handleSubmit has validated data; the
\* quotation is the prop the dialog was rendered with.  A client has one run
\* of onSubmit in flight at a time.
SubmitInvoice(c, forms) ==
    \E data \in forms :
        /\ SubmitEnabled(c)
        /\ pc[c] = "idle"
        /\ invoiceSchema(data)
        /\ isSubmitting' = [isSubmitting EXCEPT ![c] = TRUE]
        /\ run' = [run EXCEPT ![c] =
                      {[quotation |-> The(selectedQuotation[c]),
                        invoiceData |-> InvoiceData(data, The(selectedQuotation[c]),
                                                    invoiceType[c]),
                        newInvoiceRef |-> {}]}]
        /\ pc' = [pc EXCEPT ![c] = "push"]
        /\ UNCHANGED <<selectedQuotation, showInvoice, invoiceType, closeTimers,
                       toast, storeVars, formVars, sessionVars, inventoryVars>>

\* The catch and finally blocks of onSubmit.
InvoiceFailed(c) ==
    /\ toast' = [toast EXCEPT ![c] = FailedToast]
    /\ isSubmitting' = [isSubmitting EXCEPT ![c] = FALSE]
    /\ pc' = [pc EXCEPT ![c] = "idle"]
    /\ run' = [run EXCEPT ![c] = {}]
    /\ UNCHANGED <<selectedQuotation, showInvoice, invoiceType, closeTimers>>

\* await push(invoicesRef, invoiceData) resolves.
PushInvoice(c) ==
    /\ pc[c] = "push"
    /\ Len(invoices) < MaxInvoices
    /\ invoices' = Append(invoices, The(run[c]).invoiceData)
    /\ run' = [run EXCEPT ![c] =
                  {[The(run[c]) EXCEPT !.newInvoiceRef = {Len(invoices) + 1}]}]
    /\ pc' = [pc EXCEPT ![c] = "update"]
    /\ UNCHANGED <<products, quotations, nextQuotationKey, formVars, sessionVars, inventoryVars,
                   selectedQuotation, showInvoice, invoiceType, isSubmitting,
                   closeTimers, toast>>

\* A rejected push after which the status is written all the same.
PushInvoiceFailsStatusWritten(c) ==
    /\ pc[c] = "push"
    /\ InvoiceFailed(c)
    /\ quotations' = StoreUpdate(quotations, The(run[c]).quotation.id,
                                 [status |-> "invoiced"])
    /\ UNCHANGED <<products, nextQuotationKey, invoices, formVars, sessionVars, inventoryVars>>

\* await push(invoicesRef, invoiceData) rejects.
PushInvoiceFails(c) ==
    /\ pc[c] = "push"
    /\ InvoiceFailed(c)
    /\ UNCHANGED <<storeVars, formVars, sessionVars, inventoryVars>>

\* A status update that also resets the quotation's total.
UpdateStatusRetotalled(c) ==
    /\ pc[c] = "update"
    /\ quotations' = StoreUpdate(quotations, The(run[c]).quotation.id,
                                 [status |-> "invoiced", totalAmount |-> 0])
    /\ toast' = [toast EXCEPT ![c] = SuccessToast]
    /\ closeTimers' = [closeTimers EXCEPT ![c] = @ + 1]
    /\ isSubmitting' = [isSubmitting EXCEPT ![c] = FALSE]
    /\ pc' = [pc EXCEPT ![c] = "idle"]
    /\ run' = [run EXCEPT ![c] = {}]
    /\ UNCHANGED <<products, nextQuotationKey, invoices, formVars, sessionVars, inventoryVars,
                   selectedQuotation, showInvoice, invoiceType>>

\* await update(quotationRef, { status: 'invoiced' }) resolves; the success
\* toast, the 500 ms timer and the finally block follow.
UpdateStatus(c) ==
    /\ pc[c] = "update"
    /\ quotations' = StoreUpdate(quotations, The(run[c]).quotation.id,
                                 [status |-> "invoiced"])
    /\ toast' = [toast EXCEPT ![c] = SuccessToast]
    /\ closeTimers' = [closeTimers EXCEPT ![c] = @ + 1]
    /\ isSubmitting' = [isSubmitting EXCEPT ![c] = FALSE]
    /\ pc' = [pc EXCEPT ![c] = "idle"]
    /\ run' = [run EXCEPT ![c] = {}]
    /\ UNCHANGED <<products, nextQuotationKey, invoices, formVars, sessionVars, inventoryVars,
                   selectedQuotation, showInvoice, invoiceType>>

\* await update(quotationRef, { status: 'invoiced' }) rejects.
UpdateStatusFails(c) ==
    /\ pc[c] = "update"
    /\ InvoiceFailed(c)
    /\ UNCHANGED <<storeVars, formVars, sessionVars, inventoryVars>>

\* The setTimeout callback: alert(...), then onClose().
CloseTimerFires(c) ==
    /\ closeTimers[c] > 0
    /\ closeTimers' = [closeTimers EXCEPT ![c] = @ - 1]
    /\ showInvoice' = [showInvoice EXCEPT ![c] = FALSE]
    /\ UNCHANGED <<selectedQuotation, invoiceType, isSubmitting, pc, run, toast,
                   storeVars, formVars, sessionVars, inventoryVars>>

(***************************************************************************)
(* Initial states.                                                         *)
(***************************************************************************)
\* The store's products: pA at price 2 with MaxStock on hand, pB at price 1
\* with one on hand.
InitProducts ==
    products = [p \in ProductIds |->
                  IF p = "pA" THEN Product(p, 2, MaxStock) ELSE Product(p, 1, 1)]

\* QuotationForm as mounted: useState defaults.
InitQuotationForm ==
    /\ formProducts = <<>>
    /\ formFetched = FALSE
    /\ quotationItems = <<>>
    /\ total = 0
    /\ formToast = NoToast

\* QuotationList and InvoiceGenerator as mounted: useState defaults.
InitClients ==
    /\ selectedQuotation = [c \in Clients |-> {}]
    /\ showInvoice = [c \in Clients |-> FALSE]
    /\ invoiceType = [c \in Clients |-> "customer"]
    /\ isSubmitting = [c \in Clients |-> FALSE]
    /\ pc = [c \in Clients |-> "idle"]
    /\ run = [c \in Clients |-> {}]
    /\ closeTimers = [c \in Clients |-> 0]
    /\ toast = [c \in Clients |-> NoToast]

\* ProductList as mounted: useState defaults.
InitProductList ==
    /\ selectedProduct = [c \in Clients |-> {}]
    /\ isQuantityDialogOpen = [c \in Clients |-> FALSE]
    /\ quantityChange = [c \in Clients |-> 0]

\* The users collection: an administrator, an employee; uN has no record yet.
UserIds == {"uA", "uE", "uN"}
EmailOf(u) == IF u = "uA" THEN "a@gs" ELSE IF u = "uE" THEN "e@gs" ELSE "n@gs"
UserRecord(u, role, name) == [email |-> EmailOf(u), role |-> role, name |-> name]
InitUsers ==
    users = ("uA" :> UserRecord("uA", "admin", "Asha")) @@
            ("uE" :> UserRecord("uE", "employee", "Eli"))

\* The customers collection: three customers, created in the order k1, k2, k3.
CustomerIds == {"k1", "k2", "k3"}
CustomerNameOf(k) == IF k = "k1" THEN "Kiran" ELSE IF k = "k2" THEN "Lata" ELSE "Mani"
CustomerCreatedAtOf(k) == IF k = "k1" THEN 1 ELSE IF k = "k2" THEN 2 ELSE 3
Customer(k, location) ==
    [name |-> CustomerNameOf(k), location |-> location,
     createdAt |-> CustomerCreatedAtOf(k)]
InitCustomers ==
    customers = [k \in CustomerIds |-> Customer(k, "Salem")]

\* AuthProvider as mounted: useState defaults, no callback run yet.
InitAuth ==
    /\ currentUser = {}
    /\ userData = {}
    /\ isLoading = TRUE
    /\ authRuns = <<>>
    /\ authToast = NoToast

\* CustomerList and ProductList as mounted: useState defaults.
InitLists ==
    /\ selectedCustomer = {}
    /\ productToDelete = {}
    /\ isDeleteAlertOpen = [l \in {"customers", "products"} |-> FALSE]
    /\ listToast = NoToast
    /\ editedCustomer = {}
    /\ listCustomers = <<>>
    /\ listProducts = <<>>

\* StatsOverview, InvoiceList and QuotationList as mounted: useState defaults.
InitViews ==
    /\ stats = [invoices |-> 0, totalSales |-> 0]
    /\ invoiceRows = <<>>
    /\ filteredInvoices = <<>>
    /\ invoiceSearchTerm = ""
    /\ quotationRows = <<>>
    /\ filteredQuotations = <<>>
    /\ searchTerm = ""
    /\ quotationListCustomers = <<>>
    /\ quotationListProducts = <<>>
    /\ invoiceListCustomers = <<>>

InitSession ==
    /\ InitUsers
    /\ InitCustomers
    /\ InitAuth
    /\ InitLists
    /\ InitViews

Init ==
    /\ InitProducts
    /\ quotations = <<>>
    /\ nextQuotationKey = 1
    /\ invoices = <<>>
    /\ InitQuotationForm
    /\ InitClients
    /\ InitProductList
    /\ InitSession

(***************************************************************************)
(* The quotation form on its own: one form, mounted on a store whose       *)
(* products stay as they are (pB with one or none on hand) and whose       *)
(* quotations collection has handed out all its push keys but one (the     *)
(* earlier quotations were deleted).                                       *)
(***************************************************************************)
InitForm ==
    /\ products \in {[p \in ProductIds |->
                        IF p = "pA" THEN Product(p, 2, MaxStock) ELSE Product(p, 1, q)] :
                     q \in {0, 1}}
    /\ quotations = <<>>
    /\ nextQuotationKey = MaxQuotations
    /\ invoices = <<>>
    /\ InitQuotationForm
    /\ InitClients
    /\ InitProductList
    /\ InitSession

NextForm ==
    \/ FetchProducts
    \/ addQuotationItem
    \/ removeQuotationItem
    \/ updateProductId
    \/ updateQuantity
    \/ SubmitQuotation

SpecForm == InitForm /\ [][NextForm]_vars

(***************************************************************************)
(* Generate-invoice by two clients: creation, review, invoice generation   *)
(* with either write failing, and deletion.  The invoice forms are plain   *)
(* (no additional items, the default type) and the rows are not enriched.  *)
(***************************************************************************)
PlainInvoiceForms == {f \in InvoiceForms : f.additionalItems = <<>>}

Next ==
    \/ CreateQuotation
    \/ ReviewQuotation
    \/ \E c \in Clients :
          \/ OpenInvoiceDialog(c, {FALSE})
          \/ DismissInvoiceDialog(c)
          \/ handleDeleteQuotation(c)
          \/ SubmitInvoice(c, PlainInvoiceForms)
          \/ PushInvoice(c)
          \/ PushInvoiceFails(c)
          \/ UpdateStatus(c)
          \/ UpdateStatusFails(c)
          \/ CloseTimerFires(c)

Spec == Init /\ [][Next]_vars

(***************************************************************************)
(* Invoice derivation by one client: product prices are edited, rows are   *)
(* enriched or not, the form holds additional items and either type.       *)
(***************************************************************************)
NextInvoice ==
    \/ CreateQuotation
    \/ EditPrice
    \/ ReviewQuotation
    \/ OpenInvoiceDialog("c1", BOOLEAN)
    \/ setInvoiceType("c1")
    \/ SubmitInvoice("c1", InvoiceForms)
    \/ PushInvoice("c1")
    \/ PushInvoiceFails("c1")
    \/ UpdateStatus("c1")
    \/ UpdateStatusFails("c1")
    \/ CloseTimerFires("c1")

SpecInvoice == Init /\ [][NextInvoice]_vars

(***************************************************************************)
(* Inventory by two clients: products are added, edited and adjusted       *)
(* through the Update Inventory dialog.                                    *)
(***************************************************************************)
NextInventory ==
    \/ EditQuantity
    \/ AddProduct("c1")
    \/ \E c \in Clients :
          \/ handleQuantityChange(c)
          \/ DecrementChange(c)
          \/ IncrementChange(c)
          \/ TypeChange(c)
          \/ CancelQuantityChange(c)
          \/ ConfirmQuantityChange(c)

SpecInventory == Init /\ [][NextInventory]_vars

(***************************************************************************)
(* The quotation form while another client edits the stock: the form of    *)
(* SpecForm, and the edit dialog's quantity saved in between its steps.    *)
(***************************************************************************)
NextStale ==
    \/ NextForm
    \/ EditQuantity

SpecStale == InitForm /\ [][NextStale]_vars

(***************************************************************************)
(* Quotations and stock side by side: client c1 creates and invoices a     *)
(* quotation while client c2 adds products, edits quantities               *)
(* and adjusts the stock by typing a change into the dialog.               *)
(***************************************************************************)
InvoiceSteps(c) ==
    \/ OpenInvoiceDialog(c, {FALSE})
    \/ SubmitInvoice(c, PlainInvoiceForms)
    \/ PushInvoice(c)
    \/ PushInvoiceFails(c)
    \/ UpdateStatus(c)
    \/ UpdateStatusFails(c)
    \/ CloseTimerFires(c)

AdjustSteps(c) ==
    \/ handleQuantityChange(c)
    \/ TypeChange(c)
    \/ ConfirmQuantityChange(c)

NextStock ==
    \/ CreateQuotation
    \/ InvoiceSteps("c1")
    \/ EditQuantity
    \/ AddProduct("c2")
    \/ AdjustSteps("c2")

SpecStock == Init /\ [][NextStock]_vars

(***************************************************************************)
(* The same with the quotation reviewed and the products' prices edited as *)
(* well, and no product added.                                             *)
(***************************************************************************)
NextFrame ==
    \/ CreateQuotation
    \/ ReviewQuotation
    \/ InvoiceSteps("c1")
    \/ EditPrice
    \/ EditQuantity
    \/ AdjustSteps("c2")

SpecFrame == Init /\ [][NextFrame]_vars

(***************************************************************************)
(* The Update Inventory dialog of two clients, and nothing else writing    *)
(* the products.                                                           *)
(***************************************************************************)
NextRace ==
    \E c \in Clients :
        \/ handleQuantityChange(c)
        \/ DecrementChange(c)
        \/ IncrementChange(c)
        \/ TypeChange(c)
        \/ CancelQuantityChange(c)
        \/ ConfirmQuantityChange(c)

SpecRace == Init /\ [][NextRace]_vars

(***************************************************************************)
(* Deletion next to another quotation: the store already holds a pending   *)
(* quotation written earlier (key 0); client c1 creates, reviews and       *)
(* invoices, and both clients delete.                                      *)
(***************************************************************************)
EarlierQuotation ==
    QuotationData(<<FilledLine([p \in {"pB"} |-> Product(p, 1, 1)], "pB", 1)>>, 1)

InitDelete ==
    /\ InitProducts
    /\ quotations = (0 :> EarlierQuotation)
    /\ nextQuotationKey = 1
    /\ invoices = <<>>
    /\ InitQuotationForm
    /\ InitClients
    /\ InitProductList
    /\ InitSession

NextDelete ==
    \/ CreateQuotation
    \/ ReviewQuotation
    \/ InvoiceSteps("c1")
    \/ \E c \in Clients : handleDeleteQuotation(c)

SpecDelete == InitDelete /\ [][NextDelete]_vars

(***************************************************************************)
(* Properties.                                                             *)
(***************************************************************************)
RECURSIVE AmountsSum(_)
AmountsSum(items) ==
    IF items = <<>> THEN 0 ELSE Head(items).amount + AmountsSum(Tail(items))

LineFields == {"productId", "quantity", "unitPrice", "subtotal"}

\* The four fields of a line, whatever else the line carries.
Line(item) == [f \in LineFields |-> item[f]]

\* C1: every invoice in the store has totalAmount equal to the totalAmount of
\* the quotation it was generated from plus the sum of its additional items'
\* amounts; an invoice without additional items has exactly the quotation's
\* totalAmount.
C1_InvoiceTotal ==
    \A i \in 1..Len(invoices) :
        LET inv == invoices[i] IN
        inv.quotationId \in DOMAIN quotations =>
            /\ inv.totalAmount = quotations[inv.quotationId].totalAmount
                                    + AmountsSum(inv.additionalItems)
            /\ inv.additionalItems = <<>> =>
                  inv.totalAmount = quotations[inv.quotationId].totalAmount

\* An invoice with two additional items, generated from a stored quotation.
C1_Witness ==
    \E i \in 1..Len(invoices) :
        /\ Len(invoices[i].additionalItems) = 2
        /\ invoices[i].quotationId \in DOMAIN quotations
        /\ invoices[i].totalAmount = quotations[invoices[i].quotationId].totalAmount + 3

\* C2: after every step, each invoice's items are the stored items of its
\* quotation, line for line and in the same order, on productId, quantity,
\* unitPrice and subtotal, whatever the products' prices are by then; and no
\* step changes the items of an invoice already written.
C2_InvoiceItemsVerbatim ==
    [][/\ \A i \in 1..Len(invoices') :
             LET inv == invoices'[i] IN
             inv.quotationId \in DOMAIN quotations' =>
                 /\ Len(inv.items) = Len(quotations'[inv.quotationId].items)
                 /\ \A k \in 1..Len(inv.items) :
                       Line(inv.items[k]) = quotations'[inv.quotationId].items[k]
       /\ \A i \in 1..Len(invoices) : invoices'[i].items = invoices[i].items]_vars

\* An invoice whose first line (product pA) keeps a unit price that is no
\* longer the product's price, generated from an enriched row.
C2_Witness ==
    \E i \in 1..Len(invoices) :
        /\ invoices[i].items[1].productId = "pA"
        /\ invoices[i].items[1].unitPrice # products["pA"].price
        /\ "productName" \in DOMAIN invoices[i].items[1]
        /\ Len(invoices[i].items) = 2

OpenStatuses == {"pending", "approved", "rejected"}

\* C8: the Generate Invoice button and the dialog's submit are enabled for a
\* quotation in each of the statuses pending, approved and rejected; a run
\* takes the type chosen in the dialog, its push adds exactly one invoice
\* (status active, that type, the quotation's id), and when the status write
\* succeeds too no further invoice is added and the quotation is invoiced.
C8_GenerateInvoice ==
    /\ [](\A c \in Clients :
            /\ \A key \in DOMAIN quotations :
                  (/\ ~showInvoice[c]
                   /\ "items" \in DOMAIN quotations[key]
                   /\ quotations[key].status \in OpenStatuses)
                  => ENABLED (/\ OpenInvoiceDialog(c, BOOLEAN)
                              /\ The(selectedQuotation'[c]).id = key)
            /\ (/\ showInvoice[c]
                /\ ~isSubmitting[c]
                /\ pc[c] = "idle"
                /\ The(selectedQuotation[c]).status \in OpenStatuses)
               => ENABLED SubmitInvoice(c, InvoiceForms))
    /\ [][\A c \in Clients :
            /\ (pc[c] = "idle" /\ pc'[c] = "push") =>
                  /\ The(run'[c]).invoiceData.type = invoiceType[c]
                  /\ The(run'[c]).invoiceData.status = "active"
                  /\ The(run'[c]).invoiceData.quotationId = The(selectedQuotation[c]).id
            /\ (pc[c] = "push" /\ pc'[c] = "update") =>
                  /\ invoices' = Append(invoices, The(run[c]).invoiceData)
                  /\ The(run'[c]).newInvoiceRef = {Len(invoices')}
            /\ (pc[c] = "update" /\ pc'[c] = "idle" /\ toast'[c] = SuccessToast) =>
                  LET r == The(run[c])
                      inv == invoices'[The(r.newInvoiceRef)]
                  IN /\ invoices' = invoices
                     /\ inv.status = "active"
                     /\ inv.type = r.invoiceData.type
                     /\ inv.quotationId = r.quotation.id
                     /\ quotations'[r.quotation.id].status = "invoiced"]_vars

\* A run started from a rejected quotation has succeeded: one invoice, of type
\* company, and the quotation is invoiced.
C8_Witness ==
    \E c \in Clients :
        /\ toast[c] = SuccessToast
        /\ selectedQuotation[c] # {}
        /\ The(selectedQuotation[c]).status = "rejected"
        /\ The(selectedQuotation[c]).id \in DOMAIN quotations
        /\ quotations[The(selectedQuotation[c]).id].status = "invoiced"
        /\ Len(invoices) = 1
        /\ invoices[1].quotationId = The(selectedQuotation[c]).id
        /\ invoices[1].type = "company"
        /\ invoices[1].status = "active"

\* C3: a run of generate-invoice on a quotation that already showed status
\* invoiced when its dialog was opened never writes an invoice.
C3_AlreadyInvoicedRejected ==
    \A c \in Clients :
        pc[c] = "update" => The(run[c]).quotation.status # "invoiced"

\* C4: no quotation id is referenced by more than one invoice.
C4_AtMostOneInvoice ==
    \A key \in 1..MaxQuotations :
        Cardinality({i \in 1..Len(invoices) : invoices[i].quotationId = key}) <= 1

C6_InvoiceWriteFails ==
    [][\A c \in Clients :
          (pc[c] = "push" /\ pc'[c] = "idle") =>
              /\ quotations' = quotations
              /\ invoices' = invoices
              /\ toast'[c].title = "Error"]_vars

\* A failed run with no invoice in the store and the quotation still pending.
C6_Witness ==
    \E c \in Clients :
        /\ toast[c] = FailedToast
        /\ pc[c] = "idle"
        /\ invoices = <<>>
        /\ selectedQuotation[c] # {}
        /\ The(selectedQuotation[c]).id \in DOMAIN quotations
        /\ quotations[The(selectedQuotation[c]).id].status = "pending"

\* C7: a run whose push succeeded and whose status write is rejected reports
\* something other than the plain failure a rejected push reports.
C7_PartialFailureDistinct ==
    [][\A c \in Clients :
          (pc[c] = "update" /\ pc'[c] = "idle" /\ toast'[c] # SuccessToast) =>
              toast'[c] # FailedToast]_vars

RECURSIVE SubtotalsSum(_)
SubtotalsSum(items) ==
    IF items = <<>> THEN 0 ELSE Head(items).subtotal + SubtotalsSum(Tail(items))

\* C9: in every stored quotation each line's subtotal is its quantity times
\* its unitPrice and totalAmount is the sum of the lines' subtotals, whatever
\* edits of the form came before the submit.
C9_QuotationTotals ==
    \A key \in DOMAIN quotations :
        /\ \A i \in 1..Len(quotations[key].items) :
              quotations[key].items[i].subtotal =
                  quotations[key].items[i].quantity * quotations[key].items[i].unitPrice
        /\ quotations[key].totalAmount = SubtotalsSum(quotations[key].items)

\* A stored quotation of two lines, pB first, pA second with quantity 2.
C9_Witness ==
    \E key \in DOMAIN quotations :
        /\ Len(quotations[key].items) = 2
        /\ quotations[key].items[1].productId = "pB"
        /\ quotations[key].items[2].productId = "pA"
        /\ quotations[key].items[2].quantity = 2
        /\ quotations[key].totalAmount = 5

\* A line asks for more than the form's product list has on hand.
OverStock(item, prods) ==
    /\ item.productId \in DOMAIN prods
    /\ item.quantity > prods[item.productId].quantity

OverStockLines == {i \in 1..Len(quotationItems) :
                      OverStock(quotationItems[i], formProducts)}

\* The toast names line i's product and the quantity on hand of it.
NamesLine(t, i) ==
    /\ t.product = {formProducts[quotationItems[i].productId].name}
    /\ t.available = {formProducts[quotationItems[i].productId].quantity}

\* A step of the form's onSubmit.
SubmitStep ==
    /\ formFetched' = formFetched
    /\ quotationItems' \in {quotationItems, <<>>}
    /\ formToast' # formToast \/ quotations' # quotations

C11_QuantityAtLeastOne ==
    /\ [](\A key \in DOMAIN quotations :
             \A i \in 1..Len(quotations[key].items) :
                 /\ quotations[key].items[i].quantity \in Nat
                 /\ quotations[key].items[i].quantity >= 1)
    /\ [][(\E i \in 1..Len(quotationItems) : quotationItems[i].quantity < 1)
             => quotations' = quotations]_vars

\* A line of pA with quantity -1 in a form that could otherwise be submitted.
C11_Witness ==
    /\ quotations = <<>>
    /\ Len(quotationItems) = 1
    /\ quotationItems[1].productId = "pA"
    /\ quotationItems[1].quantity = -1
    /\ ValidationError(quotationItems, formProducts) = NoToast

\* C13: no stored quotation has an empty item list, and while the form's list
\* is empty no submit gets through: no quotation is written and none of
\* onSubmit's toasts is shown.
C13_EmptyRejected ==
    /\ [](\A key \in DOMAIN quotations : Len(quotations[key].items) > 0)
    /\ [][quotationItems = <<>> =>
             /\ quotations' = quotations
             /\ \/ formToast' = formToast
                \/ formToast' = Toast("Error", "Failed to load products. Please try again.")]_vars

\* The form has loaded its products, holds no line, and a push key is left.
C13_Witness ==
    /\ quotationItems = <<>>
    /\ formFetched
    /\ formProducts # <<>>
    /\ quotations = <<>>
    /\ nextQuotationKey <= MaxQuotations

\* C12: every quotation record written by create has, on each line, a quantity
\* that does not exceed the quantity its product has in the store at the moment
\* of the write, also when the product's quantity was edited by another client
\* after the form loaded its product list.
C12_WithinStockAtWrite ==
    [][\A key \in DOMAIN quotations' \ DOMAIN quotations :
          \A i \in 1..Len(quotations'[key].items) :
              /\ quotations'[key].items[i].productId \in DOMAIN products
              /\ quotations'[key].items[i].quantity <=
                     products[quotations'[key].items[i].productId].quantity]_vars

\* The quantity of some product differs between the two states of a step, or
\* the product is new in the second.
QuantityChanged ==
    \E p \in DOMAIN products' :
        \/ p \notin DOMAIN products
        \/ products'[p].quantity # products[p].quantity

\* C14: a step that writes a quotation or an invoice (create, generate invoice)
\* leaves the products collection as it is, and a product's quantity changes
\* only in a step of add-product, of the edit dialog's save or of the Update
\* Inventory dialog's confirm.
C14_QuantityFrame ==
    [][/\ (quotations' # quotations \/ invoices' # invoices) => products' = products
       /\ QuantityChanged =>
             \/ EditQuantity
             \/ \E c \in Clients : AddProduct(c) \/ ConfirmQuantityChange(c)]_vars

C14_Witness ==
    /\ invoices # <<>>
    /\ \E key \in DOMAIN quotations : quotations[key].status = "invoiced"
    /\ "pC" \in DOMAIN products
    /\ products["pA"].quantity = 0
    /\ toast["c2"] = QuantityToast(-2)

\* Client c's Update Inventory dialog holds a change that takes the quantity it
\* shows below zero.
NegativeDialog(c) ==
    /\ isQuantityDialogOpen[c]
    /\ selectedProduct[c] # {}
    /\ NewQuantity(selectedProduct[c], quantityChange[c]) < 0

\* confirmQuantityChange run by client c whether or not the button lets it.
RunConfirm(c) ==
    /\ selectedProduct[c] # {}
    /\ confirmQuantityChange(c)
    /\ UNCHANGED <<quotations, nextQuotationKey, invoices, formVars, sessionVars,
                   selectedQuotation, showInvoice, invoiceType, isSubmitting,
                   pc, run, closeTimers>>

C16_QuantityNonNegative ==
    \A p \in DOMAIN products :
        /\ products[p].quantity \in Int
        /\ products[p].quantity >= 0

\* Both clients took pA off a stock of 2 they had both observed (one of them 1,
\* the other 2), and pC was added with none on hand.
C16_Witness ==
    /\ products["pA"].quantity = 0
    /\ toast["c1"] = QuantityToast(-2)
    /\ toast["c2"] = QuantityToast(-1)
    /\ "pC" \in DOMAIN products
    /\ products["pC"].quantity = 0

\* A step in which client c's confirmQuantityChange got its write through: the
\* dialog closes and selectedProduct is cleared.
AdjustSucceeds(c) ==
    /\ ConfirmQuantityChange(c)
    /\ isQuantityDialogOpen[c]
    /\ ~isQuantityDialogOpen'[c]
    /\ selectedProduct'[c] = {}

\* C17: adjustments race, the last write wins.  Every adjustment that reports
\* success leaves in the store the quantity its client had observed plus its
\* own delta, whatever the store held by then; and there is a state in which
\* one client's adjustment has succeeded and the other client, who observed
\* the quantity before that, can still succeed with a result that drops the
\* first client's delta.
C17_LastWriteWins ==
    [][\A c \in Clients :
          AdjustSucceeds(c) =>
              /\ toast'[c] = QuantityToast(quantityChange[c])
              /\ products'[The(selectedProduct[c]).id].quantity =
                     The(selectedProduct[c]).quantity + quantityChange[c]]_vars

C17_Witness ==
    \E c \in Clients, d \in Clients :
        /\ c # d
        /\ toast[d] = QuantityToast(-1)
        /\ isQuantityDialogOpen[c]
        /\ selectedProduct[c] # {}
        /\ The(selectedProduct[c]).quantity = 2
        /\ products[The(selectedProduct[c]).id].quantity = 1
        /\ quantityChange[c] = -1
        /\ ENABLED (/\ AdjustSucceeds(c)
                    /\ toast'[c] = QuantityToast(-1)
                    /\ toast'[d] = QuantityToast(-1)
                    /\ products'[The(selectedProduct[c]).id].quantity = 1)

\* C18: an adjustment by d of a product the client observes with quantity q,
\* with q + d >= 0 and the stored record still as observed, sets the stored
\* quantity to q + d and changes nothing else: no other field of the product
\* and no other product.
C18_AdjustSetsQuantity ==
    [][\A c \in Clients :
          (/\ AdjustSucceeds(c)
           /\ products[The(selectedProduct[c]).id] = The(selectedProduct[c])) =>
              /\ The(selectedProduct[c]).quantity + quantityChange[c] >= 0
              /\ products' =
                    [products EXCEPT ![The(selectedProduct[c]).id].quantity =
                        The(selectedProduct[c]).quantity + quantityChange[c]]]_vars

\* The dialog shows pA as stored, 2 on hand, with a change of -1, and Update
\* Inventory can write 1.
C18_Witness ==
    \E c \in Clients :
        /\ isQuantityDialogOpen[c]
        /\ selectedProduct[c] = {products["pA"]}
        /\ products["pA"].quantity = 2
        /\ quantityChange[c] = -1
        /\ ENABLED (/\ AdjustSucceeds(c)
                    /\ products'["pA"] = Product("pA", products["pA"].price, 1))

\* C19: once a quotation is stored, no step of a price or quantity edit, of an
\* inventory adjustment, of a review or of invoice generation changes its
\* items or its totalAmount: the record stays, with both as they were.
C19_QuotationFrame ==
    [][\A key \in DOMAIN quotations :
          /\ key \in DOMAIN quotations'
          /\ "items" \in DOMAIN quotations'[key]
          /\ "totalAmount" \in DOMAIN quotations'[key]
          /\ quotations'[key].items = quotations[key].items
          /\ quotations'[key].totalAmount = quotations[key].totalAmount]_vars

\* A quotation created at pA's price of 2 is invoiced; since its creation pA
\* was repriced to 1 and its stock adjusted down to 0.
C19_Witness ==
    \E key \in DOMAIN quotations :
        /\ quotations[key].status = "invoiced"
        /\ quotations[key].totalAmount = 5
        /\ quotations[key].items[1].unitPrice = 2
        /\ products["pA"].price = 1
        /\ products["pA"].quantity = 0
        /\ toast["c2"] = QuantityToast(-2)

\* The statuses a stored quotation can carry.
AllStatuses == {"pending", "approved", "rejected", "invoiced"}

\* C20: with no invoice dialog in the way a client can delete any quotation,
\* whatever its status; a step that takes a quotation out of the store takes
\* out that record alone, keeps the other records as they are and leaves the
\* invoices, those generated from the deleted quotation included, unchanged.
C20_DeleteFrame ==
    /\ [](\A c \in Clients, key \in DOMAIN quotations :
             (~showInvoice[c] /\ quotations[key].status \in AllStatuses) =>
                 ENABLED (/\ handleDeleteQuotation(c)
                          /\ quotations' = StoreRemove(quotations, key)))
    /\ [][(\E key \in DOMAIN quotations : key \notin DOMAIN quotations') =>
              /\ \E key \in DOMAIN quotations :
                    quotations' = StoreRemove(quotations, key)
              /\ invoices' = invoices]_vars

\* The quotation created under key 1 was invoiced and then deleted: its
\* invoice is still there, and so is the earlier quotation.
C20_Witness ==
    /\ 1 \notin DOMAIN quotations
    /\ 0 \in DOMAIN quotations
    /\ \E i \in 1..Len(invoices) : invoices[i].quotationId = 1
    /\ \E c \in Clients : toast[c] = Toast("Success", "Quotation deleted successfully")
    /\ toast["c1"] = SuccessToast

\* The quantity a list of stored lines asks of product p, all its lines together.
QuotedOf(items, p) ==
    SumSeq([i \in 1..Len(items) |->
              IF items[i].productId = p THEN items[i].quantity ELSE 0])

\* C29: in every quotation record written by create, the lines that reference
\* one product ask, taken together, for no more than the quantity the form's
\* product list holds for that product.
C29_LinesTogetherWithinStock ==
    [][\A key \in DOMAIN quotations' \ DOMAIN quotations :
          \A p \in DOMAIN formProducts :
              QuotedOf(quotations'[key].items, p) <= formProducts[p].quantity]_vars

\* C22: invoice generation takes any invoice number, whatever numbers the
\* stored invoices carry: an open dialog with no run in flight accepts a
\* submit under every number, and a run that got as far as its push can
\* append its invoice; so two invoices of different quotations can carry the
\* same number.
C22_NumbersNotUnique ==
    \A c \in Clients :
        /\ (SubmitEnabled(c) /\ pc[c] = "idle" /\ selectedQuotation[c] # {}) =>
              \A n \in InvoiceNumbers :
                  ENABLED SubmitInvoice(c, {[invoiceNumber |-> n,
                                             additionalItems |-> <<>>]})
        /\ (pc[c] = "push" /\ Len(invoices) < MaxInvoices) =>
              ENABLED (/\ PushInvoice(c)
                       /\ invoices' = Append(invoices, The(run[c]).invoiceData))

\* Two stored invoices of different quotations carry the same number.
C22_Witness ==
    \E i \in 1..Len(invoices), j \in 1..Len(invoices) :
        /\ i < j
        /\ invoices[i].invoiceNumber = invoices[j].invoiceNumber
        /\ invoices[i].quotationId # invoices[j].quotationId

\* Some stored invoice references the quotation under key.
Referenced(key) == \E i \in 1..Len(invoices) : invoices[i].quotationId = key

\* C25: every quotation whose status is invoiced is referenced by a stored
\* invoice; the step that writes the status invoiced finds that invoice
\* already stored; and no step removes or alters a stored invoice.
C25_InvoicedIsReferenced ==
    /\ [](\A key \in DOMAIN quotations :
             quotations[key].status = "invoiced" => Referenced(key))
    /\ [][/\ \A key \in DOMAIN quotations' :
                (/\ quotations'[key].status = "invoiced"
                 /\ (key \notin DOMAIN quotations \/ quotations[key].status # "invoiced"))
                    => Referenced(key)
          /\ Len(invoices') >= Len(invoices)
          /\ \A i \in 1..Len(invoices) : invoices'[i] = invoices[i]]_vars

\* The quotation under key 1 is invoiced and has its invoice, while a second
\* run for it has failed at its push.
C25_Witness ==
    /\ 1 \in DOMAIN quotations
    /\ quotations[1].status = "invoiced"
    /\ Len(invoices) = 1
    /\ invoices[1].quotationId = 1
    /\ toast["c1"] = FailedToast
    /\ pc["c1"] = "idle"

\* C26: one opening of the generate-invoice dialog writes at most one invoice:
\* no submit can start while a run of onSubmit is in flight, and none can
\* start from a dialog that is still open after a run of it succeeded (its
\* close timer is pending).
C26_OneSubmitPerOpening ==
    \A c \in Clients :
        /\ pc[c] # "idle" => ~ENABLED SubmitInvoice(c, PlainInvoiceForms)
        /\ (showInvoice[c] /\ closeTimers[c] > 0) =>
              ~ENABLED SubmitInvoice(c, PlainInvoiceForms)

\* C27: once a quotation has been deleted no record exists at its id again: a
\* record appears in the quotations collection only under the collection's
\* next push key, never under a key handed out before.
C27_DeletedStaysDeleted ==
    [][\A key \in DOMAIN quotations' \ DOMAIN quotations :
          key = nextQuotationKey]_vars

(***************************************************************************)
(* AuthProvider: the onAuthStateChanged effect.                            *)
(***************************************************************************)
MaxAuthRuns == 2       \* callbacks of the effect that may await the store at once

\* set(ref, value): the path holds exactly the value afterwards.
StoreSet(collection, key, value) ==
    [k \in DOMAIN collection \cup {key} |-> IF k = key THEN value ELSE collection[k]]

\* isAdmin: userData?.role === 'admin'
isAdmin == IF userData = {} THEN FALSE ELSE The(userData).role = "admin"

\* defaultUserData of the callback; name is user.displayName || ''.
defaultUserData(u) == UserRecord(u, "admin", "")

LoadFailedToast == Toast("Error", "Failed to load user data. Please try again.")

\* The listener is called (first with the state found at mount, then on every
\* sign-in, sign-out or change of account): the callback runs setCurrentUser
\* and then either reaches its await of get(userRef), or, for no user, clears
\* userData and ends.  Nothing cancels a callback that is still awaiting
\* when the next one starts.
AuthStateChanged ==
    \E user \in {{}} \cup {{u} : u \in UserIds} :
        /\ IF user = currentUser THEN user = {} /\ isLoading /\ authRuns = <<>> ELSE TRUE
        /\ currentUser' = user
        /\ IF user # {}
           THEN /\ Len(authRuns) < MaxAuthRuns
                /\ authRuns' = Append(authRuns, [user |-> The(user), at |-> "get"])
                /\ UNCHANGED <<userData, isLoading>>
           ELSE /\ userData' = {}
                /\ isLoading' = FALSE
                /\ UNCHANGED authRuns
        /\ UNCHANGED <<users, authToast, deleteVars, listVars, stats, searchVars,
                       storeVars, formVars, clientVars, inventoryVars>>

\* get(userRef) answers the oldest waiting callback (the store answers in the
\* order it was asked): an existing record becomes userData; without one the
\* callback goes on to await set(userRef, defaultUserData).
GetResolves ==
    /\ authRuns # <<>>
    /\ Head(authRuns).at = "get"
    /\ LET u == Head(authRuns).user
       IN  IF u \in DOMAIN users
           THEN /\ userData' = {users[u]}
                /\ isLoading' = FALSE
                /\ authRuns' = Tail(authRuns)
           ELSE /\ authRuns' = Append(Tail(authRuns), [user |-> u, at |-> "set"])
                /\ UNCHANGED <<userData, isLoading>>
    /\ UNCHANGED <<users, currentUser, authToast, deleteVars, listVars, stats,
                   searchVars, storeVars, formVars, clientVars, inventoryVars>>

\* set(userRef, defaultUserData) is done: the record is in the store and the
\* callback makes it the session's userData.
SetResolves ==
    /\ authRuns # <<>>
    /\ Head(authRuns).at = "set"
    /\ LET u == Head(authRuns).user
       IN  /\ users' = StoreSet(users, u, defaultUserData(u))
           /\ userData' = {defaultUserData(u)}
    /\ isLoading' = FALSE
    /\ authRuns' = Tail(authRuns)
    /\ UNCHANGED <<currentUser, authToast, deleteVars, listVars, stats,
                   searchVars, storeVars, formVars, clientVars, inventoryVars>>

\* The awaited get or set rejects: the catch block's toast; userData stays.
LoadFails ==
    /\ authRuns # <<>>
    /\ authToast' = LoadFailedToast
    /\ isLoading' = FALSE
    /\ authRuns' = Tail(authRuns)
    /\ UNCHANGED <<users, currentUser, userData, deleteVars, listVars, stats,
                   searchVars, storeVars, formVars, clientVars, inventoryVars>>

(***************************************************************************)
(* The auth provider on its own: sign-ins, sign-outs, and the store's      *)
(* answers to the callbacks.                                               *)
(***************************************************************************)
NextAuth ==
    \/ AuthStateChanged
    \/ GetResolves
    \/ SetResolves
    \/ LoadFails

SpecAuth == Init /\ [][NextAuth]_vars

\* C30: once every callback of the auth effect has run, without a failed
\* load, the session shows the latest auth state: signed out, userData is
\* cleared and isAdmin is false; signed in, userData is that user's stored
\* record (the role is the stored one, and a user who had no record has one
\* with role admin and an admin session).
C30_SessionRoleIsStoredRole ==
    (authRuns = <<>> /\ authToast = NoToast) =>
        /\ currentUser = {} => (userData = {} /\ ~isAdmin)
        /\ \A u \in currentUser :
              /\ u \in DOMAIN users
              /\ userData = {users[u]}
              /\ (u = "uN" => isAdmin)

(***************************************************************************)
(* CustomerList and ProductList: the subscriptions.                        *)
(***************************************************************************)
\* Push keys sort in the order they were handed out, and a snapshot's
\* forEach visits the children in key order.
CustomerKeyOrder == <<"k1", "k2", "k3">>
ProductKeyOrder == <<"pA", "pB", "pC">>

\* The array the callback fills in snapshot.forEach.
RECURSIVE SnapshotRows(_, _)
SnapshotRows(collection, order) ==
    IF order = <<>> THEN <<>>
    ELSE (IF Head(order) \in DOMAIN collection
          THEN <<RowOf(collection, Head(order))>> ELSE <<>>)
         \o SnapshotRows(collection, Tail(order))

\* (a, b) => b.createdAt - a.createdAt, as Array.prototype.sort reads it: a
\* missing createdAt makes the difference NaN, which sort takes as +0.
compareCreatedAt(a, b) ==
    IF "createdAt" \in DOMAIN a /\ "createdAt" \in DOMAIN b
    THEN b.createdAt - a.createdAt
    ELSE 0

\* A comparator orders the rows only if "compares equal" is transitive on them.
ConsistentComparator(rows) ==
    \A i, j, k \in 1..Len(rows) :
        (compareCreatedAt(rows[i], rows[j]) = 0 /\ compareCreatedAt(rows[j], rows[k]) = 0)
            => compareCreatedAt(rows[i], rows[k]) = 0

RECURSIVE InsertSorted(_, _)
InsertSorted(sorted, x) ==
    IF sorted = <<>> THEN <<x>>
    ELSE IF compareCreatedAt(Head(sorted), x) <= 0
         THEN <<Head(sorted)>> \o InsertSorted(Tail(sorted), x)
         ELSE <<x>> \o sorted

\* The stable sort of the rows under the comparator.
RECURSIVE StableSort(_)
StableSort(rows) ==
    IF rows = <<>> THEN <<>>
    ELSE InsertSorted(StableSort(SubSeq(rows, 1, Len(rows) - 1)), rows[Len(rows)])

\* rows.sort(comparator): the stable sort when the comparator is consistent;
\* otherwise the order is up to the implementation.
SortOutcomes(rows) ==
    IF ConsistentComparator(rows)
    THEN {StableSort(rows)}
    ELSE {[i \in 1..Len(rows) |-> rows[p[i]]] : p \in Permutations(1..Len(rows))}

\* The customers subscription delivers the collection as it is now.
CustomersSnapshot ==
    /\ \E sorted \in SortOutcomes(SnapshotRows(customers, CustomerKeyOrder)) :
          listCustomers' = sorted
    /\ UNCHANGED <<listProducts, authVars, deleteVars, stats, searchVars,
                   storeVars, formVars, clientVars, inventoryVars>>

\* The products subscription delivers the collection as it is now.
ProductsSnapshot ==
    /\ \E sorted \in SortOutcomes(SnapshotRows(products, ProductKeyOrder)) :
          listProducts' = sorted
    /\ UNCHANGED <<listCustomers, authVars, deleteVars, stats, searchVars,
                   storeVars, formVars, clientVars, inventoryVars>>

(***************************************************************************)
(* CustomerList and ProductList: the delete alert.                         *)
(***************************************************************************)
\* The trash button of a row, rendered under {isAdmin && ...}.
handleDeleteCustomer ==
    \E i \in 1..Len(listCustomers) :
        /\ isAdmin
        /\ ~isDeleteAlertOpen["customers"]
        /\ selectedCustomer' = {listCustomers[i]}
        /\ isDeleteAlertOpen' = [isDeleteAlertOpen EXCEPT !["customers"] = TRUE]
        /\ UNCHANGED <<customers, productToDelete, listToast, editedCustomer,
                       authVars, listVars, stats, searchVars,
                       storeVars, formVars, clientVars, inventoryVars>>

handleDeleteProduct ==
    \E i \in 1..Len(listProducts) :
        /\ isAdmin
        /\ ~isDeleteAlertOpen["products"]
        /\ productToDelete' = {listProducts[i]}
        /\ isDeleteAlertOpen' = [isDeleteAlertOpen EXCEPT !["products"] = TRUE]
        /\ UNCHANGED <<customers, selectedCustomer, listToast, editedCustomer,
                       authVars, listVars, stats, searchVars,
                       storeVars, formVars, clientVars, inventoryVars>>

\* Cancel of the alert: onOpenChange(false).
CancelDelete(l) ==
    /\ isDeleteAlertOpen[l]
    /\ isDeleteAlertOpen' = [isDeleteAlertOpen EXCEPT ![l] = FALSE]
    /\ UNCHANGED <<customers, selectedCustomer, productToDelete, listToast,
                   editedCustomer, authVars, listVars, stats, searchVars,
                   storeVars, formVars, clientVars, inventoryVars>>

\* confirmDelete of CustomerList, the alert's Delete button: the remove is
\* awaited, then the toast; finally closes the alert and drops the selection.
confirmDeleteCustomer ==
    /\ isDeleteAlertOpen["customers"]
    /\ selectedCustomer # {}
    /\ \/ /\ customers' = StoreRemove(customers, The(selectedCustomer).id)
          /\ listToast' = Toast("Success", "Customer deleted successfully")
       \/ /\ listToast' = Toast("Error", "Failed to delete customer. Please try again.")
          /\ UNCHANGED customers
    /\ isDeleteAlertOpen' = [isDeleteAlertOpen EXCEPT !["customers"] = FALSE]
    /\ selectedCustomer' = {}
    /\ UNCHANGED <<productToDelete, editedCustomer, authVars, listVars, stats,
                   searchVars, storeVars, formVars, clientVars, inventoryVars>>

\* confirmDelete of ProductList.
confirmDeleteProduct ==
    /\ isDeleteAlertOpen["products"]
    /\ productToDelete # {}
    /\ \/ /\ products' = StoreRemove(products, The(productToDelete).id)
          /\ listToast' = Toast("Success", "Product deleted successfully")
       \/ /\ listToast' = Toast("Error", "Failed to delete product. Please try again.")
          /\ UNCHANGED products
    /\ isDeleteAlertOpen' = [isDeleteAlertOpen EXCEPT !["products"] = FALSE]
    /\ productToDelete' = {}
    /\ UNCHANGED <<customers, selectedCustomer, editedCustomer, quotations,
                   nextQuotationKey, invoices, authVars, listVars, stats,
                   searchVars, formVars, clientVars, inventoryVars>>

(***************************************************************************)
(* One browser session over the two lists: sign-ins and sign-outs, the     *)
(* subscriptions, and the delete alerts, on a store with one customer and  *)
(* one product.                                                            *)
(***************************************************************************)
InitRoles ==
    /\ products = ("pA" :> Product("pA", 2, MaxStock))
    /\ quotations = <<>>
    /\ nextQuotationKey = 1
    /\ invoices = <<>>
    /\ InitQuotationForm
    /\ InitClients
    /\ InitProductList
    /\ InitUsers
    /\ customers = ("k1" :> Customer("k1", "Salem"))
    /\ InitAuth
    /\ InitLists
    /\ InitViews

NextRoles ==
    \/ AuthStateChanged
    \/ GetResolves
    \/ SetResolves
    \/ LoadFails
    \/ CustomersSnapshot
    \/ ProductsSnapshot
    \/ handleDeleteCustomer
    \/ handleDeleteProduct
    \/ CancelDelete("customers")
    \/ CancelDelete("products")
    \/ confirmDeleteCustomer
    \/ confirmDeleteProduct

SpecRoles == InitRoles /\ [][NextRoles]_vars

\* C21: every step that removes a customer record or a product record is
\* taken by a session whose role is admin at that step.
C21_OnlyAdminDeletes ==
    [][(\/ DOMAIN customers \ DOMAIN customers' # {}
        \/ DOMAIN products \ DOMAIN products' # {}) => isAdmin]_vars

(***************************************************************************)
(* CustomerList of another client: the edit dialog.                        *)
(***************************************************************************)
\* The customers whose edit button is followed, and what the location field
\* may be changed to.
EditedCustomers == {"k2"}
Locations == {"Erode"}

\* handleEditCustomer(customer): the dialog keeps the row as selectedCustomer.
handleEditCustomer ==
    \E k \in EditedCustomers \cap DOMAIN customers :
        /\ editedCustomer = {}
        /\ editedCustomer' = {RowOf(customers, k)}
        /\ UNCHANGED <<customers, selectedCustomer, productToDelete, isDeleteAlertOpen,
                       listToast, authVars, listVars, stats, searchVars,
                       storeVars, formVars, clientVars, inventoryVars>>

\* The edit dialog is dismissed.
CancelEditCustomer ==
    /\ editedCustomer # {}
    /\ editedCustomer' = {}
    /\ UNCHANGED <<customers, selectedCustomer, productToDelete, isDeleteAlertOpen,
                   listToast, authVars, listVars, stats, searchVars,
                   storeVars, formVars, clientVars, inventoryVars>>

\* handleEditSubmit of CustomerList: update(customers/<id>, { ...editForm }),
\* editForm holding the row's fields other than id and createdAt.
handleEditSubmitCustomer ==
    \E location \in Locations :
        /\ editedCustomer # {}
        /\ \/ /\ customers' = StoreUpdate(customers, The(editedCustomer).id,
                                 [name |-> The(editedCustomer).name,
                                  location |-> location])
              /\ toast' = [toast EXCEPT !["c2"] =
                              Toast("Success", "Customer updated successfully")]
              /\ editedCustomer' = {}
           \/ /\ toast' = [toast EXCEPT !["c2"] =
                              Toast("Error", "Failed to update customer. Please try again.")]
              /\ UNCHANGED <<customers, editedCustomer>>
        /\ UNCHANGED <<selectedCustomer, productToDelete, isDeleteAlertOpen,
                       listToast, authVars, listVars, stats, searchVars,
                       storeVars, formVars, selectedQuotation, showInvoice,
                       invoiceType, isSubmitting, pc, run, closeTimers,
                       inventoryVars>>

(***************************************************************************)
(* The two lists of an administrator's session, with another client        *)
(* editing a customer, on a store with three customers and one product.    *)
(***************************************************************************)
InitAdminLists ==
    /\ products = ("pA" :> Product("pA", 2, MaxStock))
    /\ quotations = <<>>
    /\ nextQuotationKey = 1
    /\ invoices = <<>>
    /\ InitQuotationForm
    /\ InitClients
    /\ InitProductList
    /\ InitUsers
    /\ InitCustomers
    /\ currentUser = {"uA"}
    /\ userData = {UserRecord("uA", "admin", "Asha")}
    /\ isLoading = FALSE
    /\ authRuns = <<>>
    /\ authToast = NoToast
    /\ InitLists
    /\ InitViews

NextLists ==
    \/ CustomersSnapshot
    \/ ProductsSnapshot
    \/ handleDeleteCustomer
    \/ handleDeleteProduct
    \/ CancelDelete("customers")
    \/ CancelDelete("products")
    \/ confirmDeleteCustomer
    \/ confirmDeleteProduct
    \/ handleEditCustomer
    \/ CancelEditCustomer
    \/ handleEditSubmitCustomer

SpecLists == InitAdminLists /\ [][NextLists]_vars

\* The held list has exactly the collection's records, each once and as the
\* store holds it, and no row is followed by one created later.
HoldsSnapshot(list, collection) ==
    /\ Len(list) = Cardinality(DOMAIN collection)
    /\ {list[i].id : i \in 1..Len(list)} = DOMAIN collection
    /\ \A i \in 1..Len(list) : list[i] = RowOf(collection, list[i].id)
    /\ \A i, j \in 1..Len(list) :
          (i < j /\ "createdAt" \in DOMAIN list[i] /\ "createdAt" \in DOMAIN list[j])
              => list[i].createdAt >= list[j].createdAt

\* C23: whenever a subscription's snapshot changes the held list of the
\* customer list or of the product list, the new list holds exactly the
\* records of the collection, each once, newest creation time first (so an
\* empty collection gives the empty list, and nothing of the old list stays).
C23_ListIsSortedSnapshot ==
    [][/\ listCustomers' # listCustomers => HoldsSnapshot(listCustomers', customers)
       /\ listProducts' # listProducts => HoldsSnapshot(listProducts', products)]_vars

(***************************************************************************)
(* StatsOverview: the invoices subscription of the dashboard.              *)
(***************************************************************************)
MaxSnapshotInvoices == 3   \* invoices a snapshot read by the dashboard may hold

\* The invoice records as the dashboard reads them: a status, and a
\* totalAmount that may be missing.
DashboardInvoices ==
    [status : {"active", "cancelled"}, totalAmount : {1, 2}]
        \cup [status : {"active", "cancelled"}]

DashboardSnapshots ==
    UNION {[1..n -> DashboardInvoices] : n \in 0..MaxSnapshotInvoices}

\* invoice.totalAmount || 0
AmountOrZero(invoice) ==
    IF "totalAmount" \in DOMAIN invoice /\ invoice.totalAmount # 0
    THEN invoice.totalAmount
    ELSE 0

\* A loop that adds up every invoice, cancelled or not.
RECURSIVE TotalSalesAll(_)
TotalSalesAll(snapshot) ==
    IF snapshot = <<>> THEN 0
    ELSE AmountOrZero(Head(snapshot)) + TotalSalesAll(Tail(snapshot))

\* The forEach loop of the callback: totalSales += invoice.totalAmount || 0
\* for every invoice whose status is not 'cancelled'.
RECURSIVE TotalSales(_)
TotalSales(snapshot) ==
    IF snapshot = <<>> THEN 0
    ELSE (IF Head(snapshot).status # "cancelled"
          THEN AmountOrZero(Head(snapshot)) ELSE 0)
         + TotalSales(Tail(snapshot))

\* The callback of onValue(invoicesRef): the count and totalSales of an
\* existing snapshot, zeros when the collection is empty.
InvoicesSnapshot ==
    /\ stats' = IF invoices # <<>>
                THEN [invoices |-> Len(invoices), totalSales |-> TotalSales(invoices)]
                ELSE [invoices |-> 0, totalSales |-> 0]
    /\ UNCHANGED <<authVars, deleteVars, listVars, searchVars,
                   storeVars, formVars, clientVars, inventoryVars>>

\* The invoices collection changes under the subscription.
InvoicesChange ==
    /\ \E snapshot \in DashboardSnapshots :
          /\ snapshot # invoices
          /\ invoices' = snapshot
    /\ UNCHANGED <<products, quotations, nextQuotationKey, sessionVars,
                   formVars, clientVars, inventoryVars>>

(***************************************************************************)
(* The dashboard over an invoices collection of any content.               *)
(***************************************************************************)
InitStats ==
    /\ InitProducts
    /\ quotations = <<>>
    /\ nextQuotationKey = 1
    /\ invoices \in DashboardSnapshots
    /\ InitQuotationForm
    /\ InitClients
    /\ InitProductList
    /\ InitSession

NextStats ==
    \/ InvoicesSnapshot
    \/ InvoicesChange

SpecStats == InitStats /\ [][NextStats]_vars

\* C24: a step of the invoices subscription that changes the dashboard's
\* stats leaves totalSales equal to the sum of totalAmount over the
\* snapshot's invoices that are not cancelled, a missing totalAmount
\* counting as 0; it is 0 for the empty snapshot.
C24_TotalSales ==
    [][(invoices' = invoices /\ stats' # stats) =>
          /\ stats'.totalSales =
                SumSeq([i \in 1..Len(invoices) |->
                          IF invoices[i].status = "cancelled" THEN 0
                          ELSE IF "totalAmount" \in DOMAIN invoices[i]
                               THEN invoices[i].totalAmount ELSE 0])
          /\ (invoices = <<>> => stats'.totalSales = 0)]_vars

\* A snapshot with a cancelled invoice, an invoice without totalAmount and
\* a counted one has been delivered.
C24_Witness ==
    /\ Len(invoices) = 3
    /\ invoices[1] = [status |-> "cancelled", totalAmount |-> 2]
    /\ invoices[2] = [status |-> "active"]
    /\ invoices[3] = [status |-> "active", totalAmount |-> 1]
    /\ stats = [invoices |-> 3, totalSales |-> 1]

(***************************************************************************)
(* QuotationList and InvoiceList: subscriptions, enrichment, search.       *)
(***************************************************************************)
\* What the user may have in the search box.
SearchTerms == {"", "inv", "zzz"}

\* String.prototype.toLowerCase on the strings that occur.
toLowerCase(s) ==
    CASE s = "INV-1" -> "inv-1"
      [] s = "Inverter" -> "inverter"
      [] s = "Panel" -> "panel"
      [] s = "Unknown Customer" -> "unknown customer"
      [] s = "Unknown Product" -> "unknown product"
      [] s = "Kiran" -> "kiran"
      [] s = "Lata" -> "lata"
      [] s = "Mani" -> "mani"
      [] OTHER -> s

\* String.prototype.includes on the lower-cased strings and the search terms.
includes(s, term) ==
    \/ term = ""
    \/ s = term
    \/ <<s, term>> \in {<<"inv-1", "inv">>, <<"inverter", "inv">>}

\* The push keys of the two collections as the strings they are.
QuotationKeyString(key) == IF key = 0 THEN "-q0" ELSE "-q1"
InvoiceKeyString(i) == IF i = 1 THEN "-i1" ELSE IF i = 2 THEN "-i2" ELSE "-i3"

\* The record of rows a customers or products callback builds.
RowsById(collection) == [k \in DOMAIN collection |-> RowOf(collection, k)]

\* customers[customerId]?.name || 'Unknown Customer'
CustomerNameIn(custs, customerId) ==
    IF customerId \in DOMAIN custs THEN custs[customerId].name ELSE "Unknown Customer"

\* The quotations callback's array: a row per record, newest first (push
\* keys and creation times grow together).
QuotationSnapshot ==
    LET keys == DOMAIN quotations
        RECURSIVE Desc(_)
        Desc(S) == IF S = {} THEN <<>>
                   ELSE LET k == CHOOSE x \in S : \A y \in S : y <= x
                        IN  <<Row(k)>> \o Desc(S \ {k})
    IN  Desc(keys)

\* The invoices callback's array: a row per record, newest first.
InvoiceSnapshot ==
    [i \in 1..Len(invoices) |->
        LET n == Len(invoices) + 1 - i
        IN  [f \in DOMAIN invoices[n] \cup {"id"} |->
                IF f = "id" THEN n ELSE invoices[n][f]]]

\* A row as the subscription delivered it, before any enrichment.
Delivered(row) ==
    [f \in DOMAIN row \ {"customerName"} |->
        IF f = "items"
        THEN [i \in 1..Len(row.items) |->
                 [g \in DOMAIN row.items[i] \ {"productName"} |-> row.items[i][g]]]
        ELSE row[f]]

\* The enrichment effect's map over the held quotations.
QuotationWithNames(row, custs, prods) ==
    [f \in DOMAIN row \cup {"customerName"} |->
        IF f = "customerName" THEN CustomerNameIn(custs, row.customerId)
        ELSE IF f = "items"
        THEN [i \in 1..Len(row.items) |->
                 [g \in DOMAIN row.items[i] \cup {"productName"} |->
                     IF g = "productName"
                     THEN ProductNameIn(prods, row.items[i].productId)
                     ELSE row.items[i][g]]]
        ELSE row[f]]

\* The enrichment effect's map over the held invoices.
InvoiceWithName(row, custs) ==
    [f \in DOMAIN row \cup {"customerName"} |->
        IF f = "customerName" THEN CustomerNameIn(custs, row.customerId) ELSE row[f]]

\* The predicate of handleSearch's filter in QuotationList.
QuotationMatches(row, term) ==
    \/ IF "customerName" \in DOMAIN row
       THEN includes(toLowerCase(row.customerName), term) ELSE FALSE
    \/ includes(toLowerCase(QuotationKeyString(row.id)), term)
    \/ \E i \in 1..Len(row.items) :
          IF "productName" \in DOMAIN row.items[i]
          THEN includes(toLowerCase(row.items[i].productName), term) ELSE FALSE

\* The predicate of handleSearch's filter in InvoiceList.
InvoiceMatches(row, term) ==
    \/ IF "customerName" \in DOMAIN row
       THEN includes(toLowerCase(row.customerName), term) ELSE FALSE
    \/ includes(toLowerCase(row.invoiceNumber), term)
    \/ includes(toLowerCase(InvoiceKeyString(row.id)), term)

RECURSIVE FilterQuotations(_, _)
FilterQuotations(rows, term) ==
    IF rows = <<>> THEN <<>>
    ELSE (IF QuotationMatches(Head(rows), term) THEN <<Head(rows)>> ELSE <<>>)
         \o FilterQuotations(Tail(rows), term)

RECURSIVE FilterInvoices(_, _)
FilterInvoices(rows, term) ==
    IF rows = <<>> THEN <<>>
    ELSE (IF InvoiceMatches(Head(rows), term) THEN <<Head(rows)>> ELSE <<>>)
         \o FilterInvoices(Tail(rows), term)

\* What handleSearch(term, rows) leaves in filteredQuotations.
SearchedQuotations(term, rows) ==
    IF term = "" THEN rows ELSE FilterQuotations(rows, term)

\* What handleSearch(term, rows) leaves in filteredInvoices.
SearchedInvoices(term, rows) ==
    IF term = "" THEN rows ELSE FilterInvoices(rows, term)

\* The callback of onValue(quotationsRef) in QuotationList, run when the
\* collection differs from what was delivered last: the rows become both
\* the quotations state and the filteredQuotations state.
QuotationsDelivered ==
    /\ QuotationSnapshot # [i \in 1..Len(quotationRows) |-> Delivered(quotationRows[i])]
    /\ quotationRows' = QuotationSnapshot
    /\ filteredQuotations' = QuotationSnapshot
    /\ UNCHANGED <<invoiceRows, filteredInvoices, invoiceSearchTerm, searchTerm,
                   quotationListCustomers, quotationListProducts, invoiceListCustomers,
                   authVars, deleteVars, listVars, stats,
                   storeVars, formVars, clientVars, inventoryVars>>

\* The enrichment effect of QuotationList, run after its customers or
\* products state changed: with both non-empty the held rows get their
\* names and handleSearch(searchTerm, updatedQuotations) refilters them.
QuotationNamesEffect(custs, prods) ==
    IF custs # <<>> /\ prods # <<>>
    THEN LET updatedQuotations ==
                 [i \in 1..Len(quotationRows) |->
                     QuotationWithNames(quotationRows[i], custs, prods)]
         IN  /\ quotationRows' = updatedQuotations
             /\ filteredQuotations' = SearchedQuotations(searchTerm, updatedQuotations)
    ELSE UNCHANGED <<quotationRows, filteredQuotations>>

\* The callback of onValue(customersRef) in QuotationList, and the effect.
QuotationListCustomersDelivered ==
    /\ RowsById(customers) # quotationListCustomers
    /\ quotationListCustomers' = RowsById(customers)
    /\ QuotationNamesEffect(RowsById(customers), quotationListProducts)
    /\ UNCHANGED <<invoiceRows, filteredInvoices, invoiceSearchTerm, searchTerm,
                   quotationListProducts, invoiceListCustomers,
                   authVars, deleteVars, listVars, stats,
                   storeVars, formVars, clientVars, inventoryVars>>

\* The callback of onValue(productsRef) in QuotationList, and the effect.
QuotationListProductsDelivered ==
    /\ RowsById(products) # quotationListProducts
    /\ quotationListProducts' = RowsById(products)
    /\ QuotationNamesEffect(quotationListCustomers, RowsById(products))
    /\ UNCHANGED <<invoiceRows, filteredInvoices, invoiceSearchTerm, searchTerm,
                   quotationListCustomers, invoiceListCustomers,
                   authVars, deleteVars, listVars, stats,
                   storeVars, formVars, clientVars, inventoryVars>>

\* handleSearch(e.target.value) of QuotationList's search box.
handleSearchQuotations ==
    \E term \in SearchTerms :
        /\ term # searchTerm
        /\ searchTerm' = term
        /\ filteredQuotations' = SearchedQuotations(term, quotationRows)
        /\ UNCHANGED <<invoiceRows, filteredInvoices, invoiceSearchTerm, quotationRows,
                       quotationListCustomers, quotationListProducts,
                       invoiceListCustomers, authVars, deleteVars, listVars, stats,
                       storeVars, formVars, clientVars, inventoryVars>>

\* The callback of onValue(invoicesRef) in InvoiceList.
InvoicesDelivered ==
    /\ InvoiceSnapshot # [i \in 1..Len(invoiceRows) |-> Delivered(invoiceRows[i])]
    /\ invoiceRows' = InvoiceSnapshot
    /\ filteredInvoices' = InvoiceSnapshot
    /\ UNCHANGED <<invoiceSearchTerm, quotationRows, filteredQuotations, searchTerm,
                   quotationListCustomers, quotationListProducts, invoiceListCustomers,
                   authVars, deleteVars, listVars, stats,
                   storeVars, formVars, clientVars, inventoryVars>>

\* The callback of onValue(customersRef) in InvoiceList, and its enrichment
\* effect: handleSearch(searchTerm, updatedInvoices).
InvoiceListCustomersDelivered ==
    /\ RowsById(customers) # invoiceListCustomers
    /\ invoiceListCustomers' = RowsById(customers)
    /\ IF RowsById(customers) # <<>>
       THEN LET updatedInvoices ==
                    [i \in 1..Len(invoiceRows) |->
                        InvoiceWithName(invoiceRows[i], RowsById(customers))]
            IN  /\ invoiceRows' = updatedInvoices
                /\ filteredInvoices' = SearchedInvoices(invoiceSearchTerm, updatedInvoices)
       ELSE UNCHANGED <<invoiceRows, filteredInvoices>>
    /\ UNCHANGED <<invoiceSearchTerm, quotationRows, filteredQuotations, searchTerm,
                   quotationListCustomers, quotationListProducts,
                   authVars, deleteVars, listVars, stats,
                   storeVars, formVars, clientVars, inventoryVars>>

\* handleSearch(e.target.value) of InvoiceList's search box.
handleSearchInvoices ==
    \E term \in SearchTerms :
        /\ term # invoiceSearchTerm
        /\ invoiceSearchTerm' = term
        /\ filteredInvoices' = SearchedInvoices(term, invoiceRows)
        /\ UNCHANGED <<invoiceRows, quotationRows, filteredQuotations, searchTerm,
                       quotationListCustomers, quotationListProducts,
                       invoiceListCustomers, authVars, deleteVars, listVars, stats,
                       storeVars, formVars, clientVars, inventoryVars>>

(***************************************************************************)
(* The two searchable lists of one session, while a client generates       *)
(* invoices for the quotation the store holds.                             *)
(***************************************************************************)
NextSearch ==
    \/ InvoiceSteps("c1")
    \/ QuotationsDelivered
    \/ QuotationListCustomersDelivered
    \/ QuotationListProductsDelivered
    \/ handleSearchQuotations
    \/ InvoicesDelivered
    \/ InvoiceListCustomersDelivered
    \/ handleSearchInvoices

SpecSearch == InitDelete /\ [][NextSearch]_vars

\* C28: in the quotation list and in the invoice list the filtered list is
\* the held list restricted to the rows that match the current search term
\* (the whole held list for the empty term), after every snapshot delivery
\* and every change of the search term.
C28_FilteredMatchesTerm ==
    /\ filteredQuotations = SearchedQuotations(searchTerm, quotationRows)
    /\ filteredInvoices = SearchedInvoices(invoiceSearchTerm, invoiceRows)

=============================================================================
